---- MODULE Spec2Model ----
(***************************************************************************)
(* Model of setgpu.py: GPU device selection and OIDN denoiser setup run    *)
(* against Blender's bpy object tree.                                      *)
(*                                                                         *)
(* The host tree is the record bpy.  An attribute that a host version may  *)
(* lack is a name in AttrNames; bpy.has holds the names this host has and  *)
(* bpy.val their values.  Reading or assigning an attribute the host lacks *)
(* raises AttributeError (bpy structs take no new attributes), hasattr and *)
(* getattr-with-default do not.  The device enumeration is the hardware's: *)
(* refresh_devices leaves the list of devices and their kinds as it is.    *)
(***************************************************************************)
EXTENDS Naturals, Sequences, FiniteSets

VARIABLES bpy, pc, gpu, den, raised, exit_status, output, trace, written,
          pre, run, hist

vars == <<bpy, pc, gpu, den, raised, exit_status, output, trace, written,
          pre, run, hist>>

\* ------------------------------------------------------------- bounds
MaxDevices == 3
MaxMissing == 2
MaxNodes == 2
MaxRuns == 2

\* ------------------------------------------------------ program constants
TileSize == 256

\* --------------------------------------------------------------- helpers
Range(s) == {s[i] : i \in DOMAIN s}

IsPrefix(s, t) == Len(s) <= Len(t) /\ \A i \in 1..Len(s) : s[i] = t[i]

\* Attributes whose presence depends on the host version.
SceneDenoiseAttrs ==
    {"scene.cycles.use_denoising", "scene.cycles.denoiser",
     "scene.cycles.denoising_store_passes", "scene.cycles.denoising_prefilter",
     "scene.cycles.denoising_quality"}

ProbedAttrs ==
    {"view_layer.use_pass_normal", "view_layer.use_pass_diffuse_color",
     "scene.cycles.use_denoising_gpu", "scene.cycles.denoising_use_gpu",
     "scene.render.use_compositor_gpu", "preferences.system.compositor_device"}

TileAttrs ==
    {"scene.cycles.use_auto_tile", "scene.cycles.tile_x", "scene.cycles.tile_y"}

AttrNames ==
    SceneDenoiseAttrs \cup ProbedAttrs \cup TileAttrs
        \cup {"view_layer.cycles.use_denoising"}

\* hasattr(obj, name)
hasattr(b, name) == name \in b.has

\* getattr(obj, name, default)
getattr(b, name, default) == IF name \in b.has THEN b.val[name] ELSE default

\* obj.name = v on the running computation st = [bpy, written, raised]:
\* nothing once an exception is in flight, AttributeError when the host lacks
\* the attribute.
setattr(st, name, v) ==
    IF st.raised THEN st
    ELSE IF name \in st.bpy.has
         THEN [st EXCEPT !.bpy.val[name] = v, !.written = @ \cup {name}]
         ELSE [st EXCEPT !.raised = TRUE]

\* if hasattr(obj, name): obj.name = v
probe_setattr(st, name, v) ==
    IF st.raised THEN st
    ELSE IF hasattr(st.bpy, name) THEN setattr(st, name, v) ELSE st

\* ------------------------------------------------- test_optix_availability
test_optix_availability(b) ==
    \E i \in DOMAIN b.devices : b.devices[i].type = "OPTIX"

\* --------------------------------------------------- setup_gpu_rendering
\* Mutant of optix_devices: the OPTIX devices are enabled and the others are
\* left as they were.
optix_devices_keep_others(devs) ==
    [i \in DOMAIN devs |->
        [devs[i] EXCEPT !.use = (@ \/ devs[i].type = "OPTIX")]]

\* for d in prefs.devices: d.use = (d.type == 'OPTIX')
optix_devices(devs) ==
    [i \in DOMAIN devs |-> [devs[i] EXCEPT !.use = (devs[i].type = "OPTIX")]]

\* Mutant of cuda_devices: the loop without its else branch.
cuda_devices_no_else(devs) ==
    [i \in DOMAIN devs |->
        [devs[i] EXCEPT !.use = (@ \/ devs[i].type = "CUDA")]]

\* for d in prefs.devices: d.use = True if d.type == 'CUDA' else False
cuda_devices(devs) ==
    [i \in DOMAIN devs |-> [devs[i] EXCEPT !.use = (devs[i].type = "CUDA")]]

\* found: some device of kind CUDA was seen by the loop
cuda_found(devs) == \E i \in DOMAIN devs : devs[i].type = "CUDA"

\* Mutant of cuda_result: found is not consulted.
cuda_result_always(devs) == "CUDA"

\* return 'CUDA' if found else None
cuda_result(devs) == IF cuda_found(devs) THEN "CUDA" ELSE "None"

\* The whole function: the host tree after it and the value it returns.
setup_gpu_rendering(b) ==
    LET b1 == [b EXCEPT !.engine = "CYCLES", !.device = "GPU"]
    IN  IF test_optix_availability(b1)
        THEN [bpy |-> [b1 EXCEPT !.compute_device_type = "OPTIX",
                                 !.devices = optix_devices(b1.devices)],
              ret |-> "OPTIX"]
        ELSE [bpy |-> [b1 EXCEPT !.compute_device_type = "CUDA",
                                 !.devices = cuda_devices(b1.devices)],
              ret |-> cuda_result(b1.devices)]

\* ------------------------------------------------ check_denoising_enabled
scene_flag(b) == getattr(b, "scene.cycles.use_denoising", FALSE)

view_layer_flag(b) ==
    hasattr(b, "view_layer.cycles.use_denoising")
        /\ b.val["view_layer.cycles.use_denoising"]

\* Mutant of node_flag: the node tree is searched whatever use_nodes is.
node_flag_any_tree(b) ==
    /\ b.node_tree.present
    /\ \E i \in DOMAIN b.node_tree.nodes : b.node_tree.nodes[i].type = "DENOISE"

node_flag(b) ==
    /\ b.use_nodes
    /\ b.node_tree.present
    /\ \E i \in DOMAIN b.node_tree.nodes : b.node_tree.nodes[i].type = "DENOISE"

check_denoising_enabled(b) ==
    IF scene_flag(b) THEN TRUE
    ELSE IF view_layer_flag(b) THEN TRUE
    ELSE node_flag(b)

\* --------------------------------------------------- setup_oidn_denoising
\* Mutant of scene_level: use_denoising is switched off instead of on.
scene_level_disable(st) ==
    LET s1 == setattr(st, "scene.cycles.use_denoising", FALSE)
        s2 == setattr(s1, "scene.cycles.denoiser", "OPENIMAGEDENOISE")
        s3 == setattr(s2, "scene.cycles.denoising_store_passes", TRUE)
        s4 == setattr(s3, "scene.cycles.denoising_prefilter", "ACCURATE")
    IN  setattr(s4, "scene.cycles.denoising_quality", "HIGH")

\* Lines 56-60: plain assignments.
scene_level(st) ==
    LET s1 == setattr(st, "scene.cycles.use_denoising", TRUE)
        s2 == setattr(s1, "scene.cycles.denoiser", "OPENIMAGEDENOISE")
        s3 == setattr(s2, "scene.cycles.denoising_store_passes", TRUE)
        s4 == setattr(s3, "scene.cycles.denoising_prefilter", "ACCURATE")
    IN  setattr(s4, "scene.cycles.denoising_quality", "HIGH")

\* Lines 62-77: assignments behind hasattr.
probed_level(st) ==
    LET s1 == probe_setattr(st, "view_layer.use_pass_normal", TRUE)
        s2 == probe_setattr(s1, "view_layer.use_pass_diffuse_color", TRUE)
        s3 == probe_setattr(s2, "scene.cycles.use_denoising_gpu", TRUE)
        s4 == probe_setattr(s3, "scene.cycles.denoising_use_gpu", TRUE)
        s5 == probe_setattr(s4, "scene.render.use_compositor_gpu", TRUE)
    IN  probe_setattr(s5, "preferences.system.compositor_device", "GPU")

\* One node of the loop of lines 81-86.
denoise_node(n) ==
    IF n.type = "DENOISE"
    THEN [n EXCEPT !.use_gpu = IF n.has_use_gpu THEN TRUE ELSE @,
                   !.use_hdr = IF n.has_use_hdr THEN TRUE ELSE @]
    ELSE n

NodeWrites(nodes) ==
    (IF \E i \in DOMAIN nodes : nodes[i].type = "DENOISE" /\ nodes[i].has_use_gpu
     THEN {"node.use_gpu"} ELSE {})
    \cup
    (IF \E i \in DOMAIN nodes : nodes[i].type = "DENOISE" /\ nodes[i].has_use_hdr
     THEN {"node.use_hdr"} ELSE {})

\* Lines 80-86.
node_level(st) ==
    IF st.raised THEN st
    ELSE IF st.bpy.use_nodes /\ st.bpy.node_tree.present
         THEN [st EXCEPT
                 !.bpy.node_tree.nodes =
                     [i \in DOMAIN @ |-> denoise_node(@[i])],
                 !.written = @ \cup NodeWrites(st.bpy.node_tree.nodes)]
         ELSE st

setup_oidn_denoising(st) == node_level(probed_level(scene_level(st)))

\* ------------------------------------------- tile step of the orchestrator
tile_step(st) ==
    IF hasattr(st.bpy, "scene.cycles.use_auto_tile")
    THEN LET s1 == setattr(st, "scene.cycles.use_auto_tile", FALSE)
             s2 == setattr(s1, "scene.cycles.tile_x", TileSize)
         IN  setattr(s2, "scene.cycles.tile_y", TileSize)
    ELSE st

\* ------------------------------------------------------------ host states
DeviceKinds == {"OPTIX", "CUDA", "CPU"}

Device == [type : DeviceKinds, use : BOOLEAN]

DeviceLists(n) == UNION {[1..k -> Device] : k \in 0..n}

Node == {[type |-> t, has_use_gpu |-> g, use_gpu |-> FALSE,
          has_use_hdr |-> h, use_hdr |-> FALSE] :
            t \in {"DENOISE", "COMPOSITE"}, g \in BOOLEAN, h \in BOOLEAN}

NoTree == [present |-> FALSE, nodes |-> <<>>]

NodeTrees(n) ==
    {NoTree} \cup
    {[present |-> TRUE, nodes |-> s] : s \in UNION {[1..k -> Node] : k \in 0..n}}

MissingSets(n) == {m \in SUBSET AttrNames : Cardinality(m) <= n}

\* The values a file saved before the script ran holds; sd and vd are the
\* scene's and the view layer's use_denoising.
InitVal(m, sd, vd) ==
    [a \in AttrNames |->
        CASE a = "scene.cycles.use_denoising" -> (a \notin m /\ sd)
          [] a = "view_layer.cycles.use_denoising" -> (a \notin m /\ vd)
          [] a = "scene.cycles.denoiser" -> "NLM"
          [] a = "scene.cycles.denoising_prefilter" -> "FAST"
          [] a = "scene.cycles.denoising_quality" -> "BALANCED"
          [] a = "preferences.system.compositor_device" -> "CPU"
          [] a = "scene.cycles.use_auto_tile" -> (a \notin m)
          [] a \in {"scene.cycles.tile_x", "scene.cycles.tile_y"} -> 64
          [] OTHER -> FALSE]

Host(e, c, d, m, sd, vd, u, t) ==
    [engine |-> e, device |-> "CPU", compute_device_type |-> c, devices |-> d,
     has |-> AttrNames \ m, val |-> InitVal(m, sd, vd),
     use_nodes |-> u, node_tree |-> t]

Engines == {"CYCLES", "BLENDER_EEVEE"}

FullDenoiseNode ==
    [type |-> "DENOISE", has_use_gpu |-> TRUE, use_gpu |-> FALSE,
     has_use_hdr |-> TRUE, use_hdr |-> FALSE]

\* Every device list, on hosts that have every attribute.
DeviceHosts ==
    {Host(e, c, d, {}, sd, FALSE, FALSE, NoTree) :
        e \in Engines, c \in {"NONE", "OPTIX"},
        d \in DeviceLists(MaxDevices), sd \in BOOLEAN}

\* Every set of missing attributes, on hosts with a usable GPU.
AttrHosts ==
    {Host("CYCLES", "NONE", d, m, sd, vd, u,
          [present |-> TRUE, nodes |-> <<FullDenoiseNode>>]) :
        d \in {<<[type |-> "OPTIX", use |-> FALSE]>>,
               <<[type |-> "CUDA", use |-> TRUE], [type |-> "CPU", use |-> TRUE]>>},
        m \in MissingSets(MaxMissing), sd \in BOOLEAN, vd \in BOOLEAN,
        u \in BOOLEAN}

\* Every node tree, with the two use_denoising flags present or not.
NodeHosts ==
    {Host(e, "NONE", <<[type |-> "OPTIX", use |-> FALSE]>>, m, sd, vd, u, t) :
        e \in Engines,
        m \in SUBSET {"scene.cycles.use_denoising",
                      "view_layer.cycles.use_denoising"},
        sd \in BOOLEAN, vd \in BOOLEAN, u \in BOOLEAN,
        t \in NodeTrees(MaxNodes)}

Hosts == DeviceHosts \cup AttrHosts \cup NodeHosts

\* ------------------------------------------------------------------ Init
Init ==
    /\ bpy \in Hosts
    /\ pc = "main"
    /\ gpu = "unset"
    /\ den = FALSE
    /\ raised = FALSE
    /\ exit_status = 0
    /\ output = <<>>
    /\ trace = <<>>
    /\ written = {}
    /\ pre = bpy
    /\ run = 1
    /\ hist = <<>>

\* --------------------------------------------------------------- actions
\* Mutant of EngineCheck: the early return is missing.
EngineCheckNoReturn ==
    /\ pc = "main"
    /\ pre' = bpy
    /\ trace' = <<"engine_check">>
    /\ output' = Append(output, "Configuring GPU rendering...")
    /\ pc' = "gpu"
    /\ UNCHANGED <<bpy, gpu, den, raised, exit_status, written, run, hist>>

\* __main__ calls setup_gpu_and_denoiser: lines 91-97.
EngineCheck ==
    /\ pc = "main"
    /\ pre' = bpy
    /\ trace' = <<"engine_check">>
    /\ IF bpy.engine # "CYCLES"
       THEN /\ output' = Append(output, "Cycles not active, skipping setup.")
            /\ pc' = "returned"
       ELSE /\ output' = Append(output, "Configuring GPU rendering...")
            /\ pc' = "gpu"
    /\ UNCHANGED <<bpy, gpu, den, raised, exit_status, written, run, hist>>

GpuWrites(b) ==
    {"scene.render.engine", "scene.cycles.device",
     "preferences.compute_device_type"}
        \cup (IF b.devices # <<>> THEN {"device.use"} ELSE {})

\* Lines 98-103.
SetupGpuRendering ==
    /\ pc = "gpu"
    /\ LET r == setup_gpu_rendering(bpy)
       IN  /\ bpy' = r.bpy
           /\ gpu' = r.ret
           /\ IF r.ret = "None"
              THEN /\ output' = Append(output, "No GPU devices found, aborting.")
                   /\ pc' = "returned"
              ELSE /\ output' = Append(output, "GPU setup complete")
                   /\ pc' = "check"
    /\ written' = written \cup GpuWrites(bpy)
    /\ trace' = Append(trace, "setup_gpu_rendering")
    /\ UNCHANGED <<den, raised, exit_status, pre, run, hist>>

\* Mutant of CheckDenoisingEnabled: the result is not tested.
CheckDenoisingIgnored ==
    /\ pc = "check"
    /\ den' = check_denoising_enabled(bpy)
    /\ output' = Append(output, "Denoising enabled: forcing OIDN configuration...")
    /\ pc' = "oidn"
    /\ trace' = Append(trace, "check_denoising_enabled")
    /\ UNCHANGED <<bpy, gpu, raised, exit_status, written, pre, run, hist>>

\* Lines 105-109.
CheckDenoisingEnabled ==
    /\ pc = "check"
    /\ den' = check_denoising_enabled(bpy)
    /\ IF ~den'
       THEN /\ output' = Append(output, "Denoising not enabled in file; skipping denoiser setup.")
            /\ pc' = "returned"
       ELSE /\ output' = Append(output, "Denoising enabled: forcing OIDN configuration...")
            /\ pc' = "oidn"
    /\ trace' = Append(trace, "check_denoising_enabled")
    /\ UNCHANGED <<bpy, gpu, raised, exit_status, written, pre, run, hist>>

\* Line 110.
SetupOidnDenoising ==
    /\ pc = "oidn"
    /\ LET st == setup_oidn_denoising(
                    [bpy |-> bpy, written |-> written, raised |-> FALSE])
       IN  /\ bpy' = st.bpy
           /\ written' = st.written
           /\ raised' = st.raised
           /\ pc' = IF st.raised THEN "raised" ELSE "tile"
    /\ trace' = Append(trace, "setup_oidn_denoising")
    /\ UNCHANGED <<gpu, den, exit_status, output, pre, run, hist>>

\* Lines 112-116.
TileStep ==
    /\ pc = "tile"
    /\ LET st == tile_step([bpy |-> bpy, written |-> written, raised |-> FALSE])
       IN  /\ bpy' = st.bpy
           /\ written' = st.written
           /\ raised' = st.raised
           /\ pc' = IF st.raised THEN "raised" ELSE "summary"
    /\ trace' = Append(trace, "tile")
    /\ UNCHANGED <<gpu, den, exit_status, output, pre, run, hist>>

\* Lines 118-127: reads only; scene.cycles.denoiser was assigned at line 57.
Summary ==
    /\ pc = "summary"
    /\ output' = Append(output, "=== Final Configuration ===")
    /\ trace' = Append(trace, "summary")
    /\ pc' = "returned"
    /\ UNCHANGED <<bpy, gpu, den, raised, exit_status, written, pre, run, hist>>

Finished(status) ==
    Append(hist, [bpy |-> bpy, trace |-> trace, written |-> written,
                  raised |-> raised, exit_status |-> status])

\* Lines 132-133: the call returned.
MainSuccess ==
    /\ pc = "returned"
    /\ output' = Append(output, "Setup completed successfully.")
    /\ exit_status' = 0
    /\ hist' = Finished(0)
    /\ pc' = "exited"
    /\ UNCHANGED <<bpy, gpu, den, raised, trace, written, pre, run>>

\* Mutant of MainExcept: the message is printed and sys.exit(1) is missing.
MainExceptNoExit ==
    /\ pc = "raised"
    /\ output' = Append(output, "Error")
    /\ exit_status' = 0
    /\ hist' = Append(hist, [bpy |-> bpy, trace |-> trace, written |-> written,
                             raised |-> raised, exit_status |-> 0])
    /\ pc' = "exited"
    /\ UNCHANGED <<bpy, gpu, den, raised, trace, written, pre, run>>

\* Lines 134-136: the call raised.
MainExcept ==
    /\ pc = "raised"
    /\ output' = Append(output, "Error")
    /\ exit_status' = 1
    /\ hist' = Finished(1)
    /\ pc' = "exited"
    /\ UNCHANGED <<bpy, gpu, den, raised, trace, written, pre, run>>

\* The script is run again on the host as the last run left it.
Rerun ==
    /\ pc = "exited"
    /\ run < MaxRuns
    /\ run' = run + 1
    /\ pc' = "main"
    /\ gpu' = "unset"
    /\ den' = FALSE
    /\ raised' = FALSE
    /\ exit_status' = 0
    /\ output' = <<>>
    /\ trace' = <<>>
    /\ written' = {}
    /\ pre' = bpy
    /\ UNCHANGED <<bpy, hist>>

Next ==
    \/ EngineCheck
    \/ SetupGpuRendering
    \/ CheckDenoisingEnabled
    \/ SetupOidnDenoising
    \/ TileStep
    \/ Summary
    \/ MainSuccess
    \/ MainExcept
    \/ Rerun

Spec == Init /\ [][Next]_vars

\* ---------------------------------------------------------------- claims
Ran(step) == step \in Range(trace)

LastStep == IF trace = <<>> THEN "none" ELSE trace[Len(trace)]

HasKind(devs, k) == \E i \in DOMAIN devs : devs[i].type = k

\* The kinds of the devices are those before the run, and a device is
\* enabled exactly when its kind is in `kinds`.
EnabledExactly(kinds) ==
    /\ Len(bpy.devices) = Len(pre.devices)
    /\ \A i \in DOMAIN bpy.devices :
          /\ bpy.devices[i].type = pre.devices[i].type
          /\ bpy.devices[i].use <=> (bpy.devices[i].type \in kinds)

\* C1: whenever the device list holds an OPTIX device, setup_gpu_rendering
\* returns 'OPTIX', sets the compute backend to 'OPTIX', and leaves a device
\* enabled if and only if its kind is OPTIX.
C1_OptixPreferred ==
    (Ran("setup_gpu_rendering") /\ HasKind(pre.devices, "OPTIX")) =>
        /\ gpu = "OPTIX"
        /\ bpy.compute_device_type = "OPTIX"
        /\ EnabledExactly({"OPTIX"})

C1_Witness ==
    /\ Ran("setup_gpu_rendering")
    /\ \E i, j, k \in DOMAIN pre.devices :
          /\ pre.devices[i] = [type |-> "OPTIX", use |-> FALSE]
          /\ pre.devices[j] = [type |-> "CUDA", use |-> TRUE]
          /\ pre.devices[k] = [type |-> "CPU", use |-> TRUE]

\* C2: with no OPTIX device and at least one CUDA device, setup_gpu_rendering
\* returns 'CUDA', sets the compute backend to 'CUDA', and leaves a device
\* enabled if and only if its kind is CUDA.
C2_CudaFallback ==
    (/\ Ran("setup_gpu_rendering")
     /\ ~HasKind(pre.devices, "OPTIX")
     /\ HasKind(pre.devices, "CUDA")) =>
        /\ gpu = "CUDA"
        /\ bpy.compute_device_type = "CUDA"
        /\ EnabledExactly({"CUDA"})

C2_Witness ==
    /\ Ran("setup_gpu_rendering")
    /\ ~HasKind(pre.devices, "OPTIX")
    /\ pre.compute_device_type = "OPTIX"
    /\ \E i, j \in DOMAIN pre.devices :
          /\ pre.devices[i] = [type |-> "CUDA", use |-> FALSE]
          /\ pre.devices[j] = [type |-> "CPU", use |-> TRUE]

\* C3: with neither an OPTIX nor a CUDA device (the empty list included),
\* setup_gpu_rendering returns None, leaves the compute backend 'CUDA', and
\* no device is enabled afterwards.
C3_NoneFound ==
    (/\ Ran("setup_gpu_rendering")
     /\ ~HasKind(pre.devices, "OPTIX")
     /\ ~HasKind(pre.devices, "CUDA")) =>
        /\ gpu = "None"
        /\ bpy.compute_device_type = "CUDA"
        /\ EnabledExactly({})

C3_Witness ==
    /\ Ran("setup_gpu_rendering")
    /\ pre.devices # <<>>
    /\ pre.compute_device_type = "OPTIX"
    /\ \A i \in DOMAIN pre.devices :
          pre.devices[i] = [type |-> "CPU", use |-> TRUE]

\* The three sources of the denoising detector, read off a host tree.
SceneSource(b) ==
    "scene.cycles.use_denoising" \in b.has
        /\ b.val["scene.cycles.use_denoising"] = TRUE

ViewLayerSource(b) ==
    "view_layer.cycles.use_denoising" \in b.has
        /\ b.val["view_layer.cycles.use_denoising"] = TRUE

GraphHasDenoise(b) ==
    \E i \in DOMAIN b.node_tree.nodes : b.node_tree.nodes[i].type = "DENOISE"

\* C4 as stated: check_denoising_enabled returns true exactly when the scene
\* flag is set, the view-layer flag is set, or the scene's node graph holds
\* a DENOISE node, whatever use_nodes is.
C4_AnySourceAsStated ==
    Ran("check_denoising_enabled") =>
        (den <=> (SceneSource(pre) \/ ViewLayerSource(pre) \/ GraphHasDenoise(pre)))

\* C4 as amended: the node graph counts only when the scene uses nodes and
\* has a node tree: check_denoising_enabled returns true exactly when the
\* scene flag is set, the view-layer flag is set, or use_nodes is on and the
\* node tree holds a DENOISE node.
C4_AnyActiveSource ==
    Ran("check_denoising_enabled") =>
        (den <=> \/ SceneSource(pre)
                 \/ ViewLayerSource(pre)
                 \/ (pre.use_nodes /\ pre.node_tree.present /\ GraphHasDenoise(pre)))

C4_Witness ==
    /\ Ran("check_denoising_enabled")
    /\ ~pre.use_nodes
    /\ GraphHasDenoise(pre)
    /\ "scene.cycles.use_denoising" \notin pre.has
    /\ ~den

\* The value setup_oidn_denoising forces on each attribute it writes.
Forced(a) ==
    CASE a = "scene.cycles.denoiser" -> "OPENIMAGEDENOISE"
      [] a = "scene.cycles.denoising_prefilter" -> "ACCURATE"
      [] a = "scene.cycles.denoising_quality" -> "HIGH"
      [] a = "preferences.system.compositor_device" -> "GPU"
      [] OTHER -> TRUE

\* C5: setup_oidn_denoising never raises, whatever attributes the host
\* lacks: the missing attributes stay unset and every attribute present
\* holds its forced value afterwards.
C5_ConfiguratorNeverRaises ==
    (LastStep = "setup_oidn_denoising") =>
        /\ ~raised
        /\ bpy.has = pre.has
        /\ \A a \in (SceneDenoiseAttrs \cup ProbedAttrs) \cap pre.has :
              bpy.val[a] = Forced(a)

\* C6: when the engine is not 'CYCLES' at the start, setup_gpu_and_denoiser
\* returns at once and the host tree is what it was before the call.
C6_NotCyclesNoWrites ==
    (Ran("engine_check") /\ pre.engine # "CYCLES") =>
        /\ bpy = pre
        /\ written = {}
        /\ trace = <<"engine_check">>
        /\ pc \in {"returned", "exited"}
        /\ ~raised

C6_Witness ==
    /\ pc = "exited"
    /\ pre.engine # "CYCLES"
    /\ HasKind(pre.devices, "OPTIX")
    /\ SceneSource(pre)

StepOrder ==
    <<"engine_check", "setup_gpu_rendering", "check_denoising_enabled",
      "setup_oidn_denoising", "tile", "summary">>

DenoiserFields ==
    SceneDenoiseAttrs \cup ProbedAttrs \cup {"node.use_gpu", "node.use_hdr"}

DenoisingIndicated(b) ==
    \/ SceneSource(b)
    \/ ViewLayerSource(b)
    \/ (b.use_nodes /\ b.node_tree.present /\ GraphHasDenoise(b))

\* One of the three abort conditions holds of the host tree the run started on.
Aborts(b) ==
    \/ b.engine # "CYCLES"
    \/ ~(HasKind(b.devices, "OPTIX") \/ HasKind(b.devices, "CUDA"))
    \/ ~DenoisingIndicated(b)

\* C7: the steps run in the order engine check, device selection, denoising
\* detection, configurator; the configurator runs only after the engine was
\* 'CYCLES', a device kind was returned and denoising was detected; in the
\* three abort cases no denoiser field is written; otherwise the configurator
\* always runs.
C7_GuardedSequence ==
    /\ IsPrefix(trace, StepOrder)
    /\ Ran("setup_oidn_denoising") =>
          (pre.engine = "CYCLES" /\ gpu \in {"OPTIX", "CUDA"} /\ den)
    /\ Aborts(pre) =>
          (~Ran("setup_oidn_denoising") /\ written \cap DenoiserFields = {})
    /\ (pc \in {"returned", "raised", "exited"} /\ ~Aborts(pre)) =>
          Ran("setup_oidn_denoising")

C7_Witness ==
    /\ pc = "exited"
    /\ trace = StepOrder
    /\ "scene.cycles.denoiser" \in written

\* C8: the process ends with status 1 if and only if an error was raised in
\* setup_gpu_and_denoiser; every other run, the three early aborts included,
\* prints the success line and ends with status 0.
C8_ExitStatus ==
    (pc = "exited") =>
        /\ exit_status \in {0, 1}
        /\ (exit_status = 1) <=> raised
        /\ (exit_status = 0) <=> (output[Len(output)] = "Setup completed successfully.")
        /\ LastStep \in {"engine_check", "setup_gpu_rendering",
                         "check_denoising_enabled", "summary"} => exit_status = 0

C8_Witness ==
    /\ pc = "exited"
    /\ raised
    /\ exit_status = 1

\* C9: a run that reaches the tile-size step writes no attribute the host
\* lacks, raises nothing there and goes on to the final summary.
C9_TileStepNeverRaises ==
    Ran("tile") =>
        /\ ~raised
        /\ pc # "raised"
        /\ (pc \in {"returned", "exited"} => Ran("summary"))

\* C10: a run that completes without error, run again at once, takes the
\* same path, writes the same fields and leaves the host tree equal to the
\* tree after the first run.
C10_Idempotent ==
    \A i \in 1..Len(hist) :
        (i + 1 <= Len(hist) /\ ~hist[i].raised) =>
            /\ hist[i + 1].bpy = hist[i].bpy
            /\ ~hist[i + 1].raised
            /\ hist[i + 1].trace = hist[i].trace
            /\ hist[i + 1].written = hist[i].written

C10_Witness ==
    /\ Len(hist) >= 2
    /\ ~hist[1].raised
    /\ hist[1].trace = StepOrder
    /\ hist[2].trace = StepOrder

====
